---- MODULE Spec2Model ----
(***************************************************************************)
(* A model of foll-rs: the buffered active file (src/src/file.rs), the     *)
(* roll conditions (src/src/rolling/condition.rs) and the rolling file     *)
(* engine with its default naming policy (src/src/rolling.rs).             *)
(*                                                                         *)
(* File names are sequences of one-character strings, times are integer    *)
(* clock ticks, file contents are byte counts.  Every call of the public   *)
(* surface (write, roll, flush) runs as a chain of steps, one per          *)
(* statement of the code that touches the file system or the engine, and   *)
(* pc is the position of the call in progress.                             *)
(***************************************************************************)
EXTENDS Integers, Sequences, FiniteSets, TLC

\* ---------------------------------------------------------------- bounds
\* Clock ticks per formatted timestamp (the resolution of the datetime format).
TicksPerBucket == 2
\* The clock runs from 1 to MaxTime: through the first timestamp into the second.
MaxTime == TicksPerBucket
\* The longest buffer a caller hands to write (it hands 1 byte, or MaxBuf).
MaxBuf == 2
\* The capacity of the BufWriter around the file handle: a write of MaxBuf
\* bytes goes past the buffer, a shorter one into it.
BufCap == MaxBuf
\* The number of calls (write, roll, flush) the caller makes.
MaxCalls == 2
\* The largest max_file_count configured.
MaxKeep == 1
\* The number of next_file_name calls made on a provider on its own.
MaxNames == 5
\* The desired_size of the size condition attached.
DesiredSize == 2
\* The duration of the duration condition attached, in clock ticks.
Duration == 1

\* ------------------------------------------------------------- variables
VARIABLES
    file,        \* RollingFile.file: NoFile or the active File
    handles,     \* the number of open OS file handles the engine holds
    dir,         \* the directory: name -> [kind, created, size]
    provider,    \* DefaultRollingFileNameProvider
    config,      \* truncate, max_file_count, rolling_conditions
    now,         \* the clock read by now_utc and by the file system
    pc,          \* the position of the call in progress, "idle" between calls
    call,        \* the call in progress (or the last one) and its outcome
    hist         \* history of the run: what the engine did so far

vars == <<file, handles, dir, provider, config, now, pc, call, hist>>

\* ------------------------------------------------------------ Option<T>
None == [some |-> FALSE]
Some(x) == [some |-> TRUE, val |-> x]
NoFile == None

\* -------------------------------------------------------------- strings
Digits == <<"0", "1", "2", "3", "4", "5", "6", "7", "8", "9">>

\* The decimal digits of n, as format!("{}") prints an unsigned integer.
RECURSIVE Dec(_)
Dec(n) == IF n < 10 THEN <<Digits[n + 1]>> ELSE Dec(n \div 10) \o <<Digits[(n % 10) + 1]>>

\* str::starts_with
StartsWith(s, p) == Len(p) <= Len(s) /\ SubSeq(s, 1, Len(p)) = p
\* str::ends_with
EndsWith(s, p) == Len(p) <= Len(s) /\ SubSeq(s, Len(s) - Len(p) + 1, Len(s)) = p

\* Option<String>::unwrap_or("")
UnwrapOrEmpty(o) == IF o.some THEN o.val ELSE <<>>

\* OffsetDateTime::format with the provider's format: the clock cut to the
\* resolution of the format.
FormatDatetime(t) == Dec(t \div TicksPerBucket)

\* ------------------------------------------- DefaultRollingFileNameProvider
\* The provider DefaultRollingFileNameProviderBuilder::finish builds.  format_ok
\* says whether file_name_datetime_format parses and formats.
NewProvider(prefix, suffix, format_ok) ==
    [file_name_prefix |-> prefix,
     file_name_suffix |-> suffix,
     format_ok |-> format_ok,
     prev_file_name_datetime |-> None,
     prev_file_name_datetime_hits |-> 0]

\* An acceptable that looks for the suffix at the start of the name.
AcceptableSuffixAtStart(p, file_name) ==
    IF p.file_name_prefix.some /\ ~StartsWith(file_name, p.file_name_prefix.val)
    THEN FALSE
    ELSE IF p.file_name_suffix.some /\ ~StartsWith(file_name, p.file_name_suffix.val)
    THEN FALSE
    ELSE TRUE

\* DefaultRollingFileNameProvider::acceptable
Acceptable(p, file_name) ==
    IF p.file_name_prefix.some /\ ~StartsWith(file_name, p.file_name_prefix.val)
    THEN FALSE
    ELSE IF p.file_name_suffix.some /\ ~EndsWith(file_name, p.file_name_suffix.val)
    THEN FALSE
    ELSE TRUE

\* A memory that keeps counting when the timestamp changes.
RememberWithoutReset(p, datetime) ==
    IF p.prev_file_name_datetime = Some(datetime)
    THEN [p EXCEPT !.prev_file_name_datetime_hits = @ + 1]
    ELSE [p EXCEPT !.prev_file_name_datetime = Some(datetime)]

\* The provider's bucket memory after next_file_name saw `datetime`.
Remember(p, datetime) ==
    IF p.prev_file_name_datetime = Some(datetime)
    THEN [p EXCEPT !.prev_file_name_datetime_hits = @ + 1]
    ELSE [p EXCEPT !.prev_file_name_datetime = Some(datetime),
                   !.prev_file_name_datetime_hits = 0]

\* A name formatted without the number of the repeat.
FormatNameWithoutHits(p) ==
    UnwrapOrEmpty(p.file_name_prefix) \o p.prev_file_name_datetime.val
        \o UnwrapOrEmpty(p.file_name_suffix)

\* The name next_file_name formats from the provider's (updated) memory.
FormatName(p) ==
    LET prefix == UnwrapOrEmpty(p.file_name_prefix)
        suffix == UnwrapOrEmpty(p.file_name_suffix)
    IN  IF p.prev_file_name_datetime_hits = 0
        THEN prefix \o p.prev_file_name_datetime.val \o suffix
        ELSE prefix \o p.prev_file_name_datetime.val \o <<"-">>
                    \o Dec(p.prev_file_name_datetime_hits) \o suffix

\* DefaultRollingFileNameProvider::next_file_name at clock t: the result and
\* the provider afterwards.  A format error returns before the memory changes.
NextFileName(p, t) ==
    IF ~p.format_ok
    THEN [ok |-> FALSE, name |-> <<>>, provider |-> p]
    ELSE LET q == Remember(p, FormatDatetime(t))
         IN  [ok |-> TRUE, name |-> FormatName(q), provider |-> q]

\* ------------------------------------------------------- roll conditions
\* Result<bool, Box<dyn Error>>
Ok(v) == [ok |-> TRUE, val |-> v]
Err == [ok |-> FALSE]

BySize(desired_size) == [kind |-> "size", desired_size |-> desired_size]
ByDuration(duration) == [kind |-> "duration", duration |-> duration]
\* A RollingCondition of the user's whose should_roll returns Err.
Failing == [kind |-> "failing"]

\* A size condition that fires only past the threshold.
SizeShouldRollPast(c, f) == c.desired_size < f.len

\* RollingBySize::should_roll
SizeShouldRoll(c, f) == c.desired_size <= f.len

\* A duration condition that spares an empty file.
DurationShouldRollNonEmpty(c, f, t) == f.len > 0 /\ f.created + c.duration <= t

\* RollingByDuration::should_roll
DurationShouldRoll(c, f, t) == f.created + c.duration <= t

\* RollingCondition::should_roll, dispatched on the condition attached.
ConditionShouldRoll(c, f, t) ==
    CASE c.kind = "size" -> Ok(SizeShouldRoll(c, f))
      [] c.kind = "duration" -> Ok(DurationShouldRoll(c, f, t))
      [] c.kind = "failing" -> Err

\* A loop that returns what its first condition says.
AnyConditionFromFirstOnly(conds, i, f, t) ==
    IF i > Len(conds) THEN Ok(FALSE) ELSE ConditionShouldRoll(conds[i], f, t)

\* The loop of RollingFile::should_roll over rolling_conditions[i..]: the
\* first condition that returns Err or Ok(true) ends it.
RECURSIVE AnyConditionFrom(_, _, _, _)
AnyConditionFrom(conds, i, f, t) ==
    IF i > Len(conds) THEN Ok(FALSE)
    ELSE LET r == ConditionShouldRoll(conds[i], f, t)
         IN  IF ~r.ok THEN r
             ELSE IF r.val THEN Ok(TRUE)
             ELSE AnyConditionFrom(conds, i + 1, f, t)

\* A should_roll that takes an empty list of conditions for one that fires.
ShouldRollWhenEmpty(fo, conds, t) ==
    IF ~fo.some \/ conds = <<>> THEN Ok(TRUE) ELSE AnyConditionFrom(conds, 1, fo.val, t)

\* RollingFile::should_roll
ShouldRoll(fo, conds, t) ==
    IF ~fo.some THEN Ok(TRUE) ELSE AnyConditionFrom(conds, 1, fo.val, t)

\* ------------------------------------------------------------ file system
RegularFile(created, size) == [kind |-> "file", created |-> created, size |-> size]
Directory(created) == [kind |-> "dir", created |-> created, size |-> 0]

\* The directory after OpenOptions::write(true).create(true).append(!truncate)
\* .truncate(truncate).open(path) succeeded at clock t.
OsOpen(d, name, truncate, t) ==
    IF name \in DOMAIN d
    THEN IF truncate THEN [d EXCEPT ![name].size = 0] ELSE d
    ELSE (name :> RegularFile(t, 0)) @@ d

\* The directory after fs::remove_file(name).
OsRemove(d, name) == [n \in DOMAIN d \ {name} |-> d[n]]

\* The directory after k buffered bytes of the handle on `name` reached the
\* disk (an unlinked file takes them with it).
OsWrite(d, name, k) ==
    IF name \in DOMAIN d THEN [d EXCEPT ![name].size = @ + k] ELSE d

\* ------------------------------------------------------------------ File
\* A File::open that always starts the length at 0.
OpenedFileFromZero(name, e, id, pre) ==
    [name |-> name, created |-> e.created, len |-> 0, buffered |-> 0,
     id |-> id, pre |-> pre, accepted |-> 0]

\* File::open's result on the opened entry e: stat seeded from the metadata,
\* an empty BufWriter.  id numbers the handles this engine opened; pre is the
\* size the entry had before the open (None: the open created it); accepted
\* counts the bytes write accepted through this handle.
OpenedFile(name, e, id, pre) ==
    [name |-> name, created |-> e.created, len |-> e.size, buffered |-> 0,
     id |-> id, pre |-> pre, accepted |-> 0]

\* A write that leaves the stat's length as it was.
WrittenUncounted(f, n, b) ==
    [f EXCEPT !.buffered = b, !.accepted = @ + n]

\* File::write's closure: the stat after the BufWriter accepted n bytes, of
\* which b stay in its buffer.
Written(f, n, b) ==
    [f EXCEPT !.len = @ + n, !.buffered = b, !.accepted = @ + n]

\* File::flush (BufWriter::flush) with b bytes buffered: whether it succeeds
\* and how many bytes reach the disk.  An empty buffer has nothing to fail on;
\* a failing flush may have written a part of the buffer and keeps the rest.
FlushOutcomes(b) ==
    IF b = 0 THEN {[ok |-> TRUE, disk |-> 0]}
    ELSE {[ok |-> TRUE, disk |-> b]} \cup {[ok |-> FALSE, disk |-> k] : k \in 0..(b - 1)}

\* File::write (BufWriter::write) of n bytes with b bytes buffered: whether it
\* succeeds, the bytes it accepts, the bytes that reach the disk, the bytes
\* buffered afterwards.  A buffer without room is flushed first; a write as
\* large as the buffer goes to the handle directly and may be short.
WriteOutcomes(b, n) ==
    IF n < BufCap - b
    THEN {[ok |-> TRUE, n |-> n, disk |-> 0, buffered |-> b + n]}
    ELSE LET flushed == IF n > BufCap - b THEN FlushOutcomes(b)
                        ELSE {[ok |-> TRUE, disk |-> 0]}
         IN  UNION {
               IF ~fl.ok
               THEN {[ok |-> FALSE, n |-> 0, disk |-> fl.disk, buffered |-> b - fl.disk]}
               ELSE IF n >= BufCap
               THEN {[ok |-> TRUE, n |-> m, disk |-> fl.disk + m,
                      buffered |-> b - fl.disk] : m \in 1..n}
                    \cup {[ok |-> FALSE, n |-> 0, disk |-> fl.disk,
                           buffered |-> b - fl.disk]}
               ELSE {[ok |-> TRUE, n |-> n, disk |-> fl.disk,
                      buffered |-> b - fl.disk + n]}
               : fl \in flushed }

\* ------------------------------------------------------ retention pruning
\* A filter that keeps every regular file, whatever its name.
LogFilesAnyName(d, p) == {n \in DOMAIN d : d[n].kind = "file"}

\* The entries RollingFile::something keeps after its filter_map: regular
\* files whose name the provider accepts.
LogFiles(d, p) == {n \in DOMAIN d : d[n].kind = "file" /\ Acceptable(p, n)}

\* A sort without the Reverse: oldest first.
RECURSIVE SortedOldestFirst(_, _)
SortedOldestFirst(d, S) ==
    IF S = {} THEN {<<>>}
    ELSE UNION { {<<n>> \o rest : rest \in SortedOldestFirst(d, S \ {n})}
                 : n \in {m \in S : \A o \in S : d[m].created <= d[o].created} }

\* The orders sort_unstable_by_key(Reverse(created)) can leave the names of S
\* in: newest first, entries of equal creation time in any order.
RECURSIVE SortedNewestFirst(_, _)
SortedNewestFirst(d, S) ==
    IF S = {} THEN {<<>>}
    ELSE UNION { {<<n>> \o rest : rest \in SortedNewestFirst(d, S \ {n})}
                 : n \in {m \in S : \A o \in S : d[o].created <= d[m].created} }

\* log_files.into_iter().skip(max_file_count)
Skip(log_files, k) ==
    IF k >= Len(log_files) THEN <<>> ELSE SubSeq(log_files, k + 1, Len(log_files))

\* The directory after remove_file succeeded on the first j of `doomed`.
RECURSIVE RemoveFirst(_, _, _)
RemoveFirst(d, doomed, j) ==
    IF j = 0 THEN d ELSE OsRemove(RemoveFirst(d, doomed, j - 1), doomed[j])

\* A best-effort prune: it goes on removing after a remove_file failed, and
\* reports the failure at the end.
PruneOutcomesBestEffort(d, p, k) ==
    {[err |-> "scan", dir |-> d, doomed |-> <<>>, removed |-> 0]}
    \cup UNION {
        LET doomed == Skip(log_files, k)
        IN  {[err |-> "none", dir |-> RemoveFirst(d, doomed, Len(doomed)),
              doomed |-> doomed, removed |-> Len(doomed)]}
            \cup {[err |-> "remove_file",
                   dir |-> [n \in DOMAIN d \ ({doomed[i] : i \in 1..Len(doomed)}
                                                \ {doomed[j + 1]}) |-> d[n]],
                   doomed |-> doomed, removed |-> j] : j \in 0..(Len(doomed) - 1)}
        : log_files \in SortedNewestFirst(d, LogFiles(d, p)) }

\* What a run of RollingFile::something with max_file_count = Some(k) can do
\* to directory d: the step it failed at ("none": it returned Ok), the
\* directory afterwards, the entries it set out to remove and how many it
\* removed.  It fails at "scan" when read_dir, an entry's metadata, an
\* acceptability check (a provider's acceptable may return Err) or an entry's
\* creation time fails: both collect() calls end before the first
\* remove_file.  The removals stop at the first remove_file that fails.
PruneOutcomes(d, p, k) ==
    {[err |-> "scan", dir |-> d, doomed |-> <<>>, removed |-> 0]}
    \cup UNION {
        LET doomed == Skip(log_files, k)
        IN  {[err |-> IF j = Len(doomed) THEN "none" ELSE "remove_file",
              dir |-> RemoveFirst(d, doomed, j),
              doomed |-> doomed, removed |-> j] : j \in 0..Len(doomed)}
        : log_files \in SortedNewestFirst(d, LogFiles(d, p)) }

\* ---------------------------------------------------------- RollingFile
\* A roll that asks for the next name before it releases the old file.
AfterNameFirst(step) ==
    CASE step = "flush" -> "next_file_name"
      [] step = "next_file_name" -> "drop"
      [] step = "drop" -> "open"
      [] step = "open" -> "something"

\* The statements of roll and open_next_file in order: the position after
\* `step` succeeded.
After(step) ==
    CASE step = "flush" -> "drop"
      [] step = "drop" -> "next_file_name"
      [] step = "next_file_name" -> "open"
      [] step = "open" -> "something"

\* What the last run of `something` did: the directory it listed, the entries
\* it set out to remove, how many it removed.
NoPrune == [ran |-> FALSE, before |-> <<>>, doomed |-> <<>>, removed |-> 0]

\* -------------------------------------------------------- configurations
\* RollingFileBuilder: the lists of conditions attached, in attachment order.
ConditionLists ==
    LET s == BySize(DesiredSize)
        d == ByDuration(Duration)
    IN  {<<>>, <<s>>, <<d>>, <<s, d>>, <<Failing>>}

Configs ==
    [truncate : BOOLEAN,
     max_file_count : {None} \cup {Some(k) : k \in 0..MaxKeep},
     rolling_conditions : ConditionLists]

\* DefaultRollingFileNameProviderBuilder: a prefix and a suffix, a datetime
\* format that formats or one that does not.
Providers ==
    {NewProvider(Some(<<"a">>), Some(<<"l">>), ok) : ok \in BOOLEAN}

\* What the directory holds before the engine's first call: nothing; or an
\* older file of the rotation set, a file left under the name a roll takes
\* in the last timestamp, a file outside the set and a subdirectory named
\* like the set.
Directories(p) ==
    LET wrap(mid) == UnwrapOrEmpty(p.file_name_prefix) \o mid
                     \o UnwrapOrEmpty(p.file_name_suffix)
        old == wrap(<<"o">>) :> RegularFile(0, 1)
        left == wrap(FormatDatetime(MaxTime)) :> RegularFile(1, 1)
        other == <<"x">> :> RegularFile(0, 1)
        sub == wrap(<<"d">>) :> Directory(0)
    IN  {<<>>, old @@ left @@ other @@ sub}

NoCall ==
    [op |-> "none", buf |-> 0, result |-> "ok", ret |-> 0, err_at |-> "none",
     start |-> NoFile, t0 |-> 0, accepted0 |-> 0, rolls |-> 0, log |-> <<>>,
     name |-> <<>>, prune |-> NoPrune]

Init ==
    /\ file = NoFile
    /\ handles = 0
    /\ provider \in Providers
    /\ dir \in Directories(provider)
    /\ config \in Configs
    /\ now = 1
    /\ pc = "idle"
    /\ call = NoCall
    /\ hist = [calls |-> 0, opens |-> 0, accepted |-> 0, base |-> 0, fired |-> FALSE,
               failed |-> FALSE, rolled |-> FALSE, dir0 |-> dir]

\* ------------------------------------------------------------- the clock
\* The clock advances: between calls, before writer's loop test, and between
\* next_file_name and the open that creates the file.  These are all the
\* places where a tick makes a difference: the other statements do not read
\* the clock, and a tick between a loop test that was true and next_file_name
\* is a tick before that test (a built-in condition that holds at one time
\* holds at every later time).
Tick ==
    /\ pc \in {"idle", "should_roll", "open"}
    /\ now < MaxTime
    /\ now' = now + 1
    /\ UNCHANGED <<file, handles, dir, provider, config, pc, call, hist>>

\* ----------------------------------------------------------- call starts
Begin(op, n) ==
    [NoCall EXCEPT !.op = op, !.buf = n, !.result = "running",
                   !.start = file, !.t0 = now, !.accepted0 = hist.accepted]

\* <RollingFile as Write>::write(buf), buf of n bytes: enters writer's loop.
CallWrite(n) ==
    /\ pc = "idle"
    /\ hist.calls < MaxCalls
    /\ pc' = "should_roll"
    /\ call' = Begin("write", n)
    /\ hist' = [hist EXCEPT !.calls = @ + 1]
    /\ UNCHANGED <<file, handles, dir, provider, config, now>>

\* RollingFile::roll called by the owner.
CallRoll ==
    /\ pc = "idle"
    /\ hist.calls < MaxCalls
    /\ pc' = "flush"
    /\ call' = [Begin("roll", 0) EXCEPT !.rolls = 1]
    /\ hist' = [hist EXCEPT !.calls = @ + 1, !.rolled = TRUE]
    /\ UNCHANGED <<file, handles, dir, provider, config, now>>

\* A writer that goes round its loop again after a failed roll.
FailedThenRetried(step, c) ==
    /\ pc' = IF c.op = "write" THEN "should_roll" ELSE "idle"
    /\ call' = [c EXCEPT !.result = "err", !.err_at = step,
                         !.log = Append(@, "failed")]
    /\ hist' = [hist EXCEPT !.failed = TRUE]

\* The `?` after a step of writer, roll or open_next_file that returned Err:
\* the call in progress returns the error.
Failed(step, c) ==
    /\ pc' = "idle"
    /\ call' = [c EXCEPT !.result = "err", !.err_at = step,
                         !.log = Append(@, "failed")]
    /\ hist' = [hist EXCEPT !.failed = TRUE]

\* <RollingFile as Write>::flush called by the owner.
CallFlush ==
    /\ pc = "idle"
    /\ hist.calls < MaxCalls
    /\ pc' = "idle"
    /\ \E o \in FlushOutcomes(IF file.some THEN file.val.buffered ELSE 0) :
         /\ file' = IF file.some
                    THEN Some([file.val EXCEPT !.buffered = @ - o.disk]) ELSE file
         /\ dir' = IF file.some THEN OsWrite(dir, file.val.name, o.disk) ELSE dir
         /\ call' = [Begin("flush", 0) EXCEPT
                        !.result = IF o.ok THEN "ok" ELSE "err",
                        !.err_at = IF o.ok THEN "none" ELSE "flush"]
         /\ hist' = [hist EXCEPT !.calls = @ + 1, !.failed = @ \/ ~o.ok]
    /\ UNCHANGED <<handles, provider, config, now>>

\* ------------------------------------------------- RollingFile::writer
\* A loop test that asks only whether a file is open.
ShouldRollStepUnchecked ==
    /\ pc = "should_roll"
    /\ IF ~file.some
       THEN /\ pc' = "flush"
            /\ call' = [call EXCEPT !.rolls = @ + 1, !.log = <<>>, !.prune = NoPrune]
            /\ UNCHANGED hist
       ELSE /\ pc' = "write"
            /\ UNCHANGED <<call, hist>>
    /\ UNCHANGED <<file, handles, dir, provider, config, now>>

\* The loop test `while self.should_roll()?`: the error of a condition ends
\* the call, a roll starts, or the loop ends and the write follows.
ShouldRollStep ==
    /\ pc = "should_roll"
    /\ LET r == ShouldRoll(file, config.rolling_conditions, now)
       IN  IF ~r.ok
           THEN Failed("should_roll", call)
           ELSE IF r.val
           THEN /\ pc' = "flush"
                /\ call' = [call EXCEPT !.rolls = @ + 1, !.log = <<>>, !.prune = NoPrune]
                /\ hist' = [hist EXCEPT !.fired = @ \/ file.some]
           ELSE /\ pc' = "write"
                /\ UNCHANGED <<call, hist>>
    /\ UNCHANGED <<file, handles, dir, provider, config, now>>

\* A flush whose failure lets go of the file and of what it had buffered.
RollFlushReleasing ==
    /\ pc = "flush"
    /\ \E o \in FlushOutcomes(IF file.some THEN file.val.buffered ELSE 0) :
         /\ file' = IF ~file.some THEN file
                    ELSE IF o.ok THEN Some([file.val EXCEPT !.buffered = @ - o.disk])
                    ELSE NoFile
         /\ dir' = IF file.some THEN OsWrite(dir, file.val.name, o.disk) ELSE dir
         /\ IF o.ok
            THEN /\ pc' = After("flush")
                 /\ call' = [call EXCEPT !.log = Append(@, "flush")]
                 /\ UNCHANGED hist
            ELSE Failed("flush", call)
    /\ UNCHANGED <<handles, provider, config, now>>

\* ------------------------------------------ RollingFile::open_next_file
\* self.flush()?
RollFlush ==
    /\ pc = "flush"
    /\ \E o \in FlushOutcomes(IF file.some THEN file.val.buffered ELSE 0) :
         /\ file' = IF file.some
                    THEN Some([file.val EXCEPT !.buffered = @ - o.disk]) ELSE file
         /\ dir' = IF file.some THEN OsWrite(dir, file.val.name, o.disk) ELSE dir
         /\ IF o.ok
            THEN /\ pc' = After("flush")
                 /\ call' = [call EXCEPT !.log = Append(@, "flush")]
                 /\ UNCHANGED hist
            ELSE Failed("flush", call)
    /\ UNCHANGED <<handles, provider, config, now>>

\* A drop that forgets the old File without closing its handle.
RollDropLeaking ==
    /\ pc = "drop"
    /\ file' = NoFile
    /\ pc' = "next_file_name"
    /\ call' = [call EXCEPT !.log = Append(@, "drop")]
    /\ UNCHANGED <<handles, dir, provider, config, now, hist>>

\* self.file = None: the old File is dropped, its handle closed (the BufWriter
\* writes out what its buffer still holds).
RollDrop ==
    /\ pc = "drop"
    /\ file' = NoFile
    /\ handles' = IF file.some THEN handles - 1 ELSE handles
    /\ dir' = IF file.some THEN OsWrite(dir, file.val.name, file.val.buffered) ELSE dir
    /\ pc' = After("drop")
    /\ call' = [call EXCEPT !.log = Append(@, "drop")]
    /\ UNCHANGED <<provider, config, now, hist>>

\* self.file_name_provider.next_file_name().map_err(..)?
RollName ==
    /\ pc = "next_file_name"
    /\ LET r == NextFileName(provider, now)
       IN  /\ provider' = r.provider
           /\ IF r.ok
              THEN /\ pc' = After("next_file_name")
                   /\ call' = [call EXCEPT !.name = r.name,
                                           !.log = Append(@, "next_file_name")]
                   /\ UNCHANGED hist
              ELSE Failed("next_file_name", call)
    /\ UNCHANGED <<file, handles, dir, config, now>>

\* self.file = Some(File::open(directory.join(file_name), options)?).  File::open
\* fails at "open" when create_dir_all or the open itself fails (nothing has
\* changed), and at "metadata" when file.metadata() or metadata.created()
\* fails: the open has then created or truncated the file, and File::open
\* drops its handle on the way out.
RollOpen ==
    /\ pc = "open"
    /\ LET name == call.name
           isdir == name \in DOMAIN dir /\ dir[name].kind = "dir"
           pre == IF name \in DOMAIN dir THEN Some(dir[name].size) ELSE None
           opened == OsOpen(dir, name, config.truncate, now)
       IN  \/ /\ Failed("open", call)
              /\ UNCHANGED <<file, handles, dir>>
           \/ /\ ~isdir
              /\ Failed("metadata", call)
              /\ dir' = opened
              /\ UNCHANGED <<file, handles>>
           \/ /\ ~isdir
              /\ dir' = opened
              /\ file' = Some(OpenedFile(name, opened[name], hist.opens + 1, pre))
              /\ handles' = handles + 1
              /\ pc' = After("open")
              /\ call' = [call EXCEPT !.log = Append(@, "open")]
              /\ hist' = [hist EXCEPT !.opens = @ + 1, !.base = hist.accepted]
    /\ UNCHANGED <<provider, config, now>>

\* ------------------------------------------------ RollingFile::something
\* self.something()? and the return of roll: retention pruning when
\* max_file_count is set, then back to writer's loop or to roll's caller.
Something ==
    /\ pc = "something"
    /\ \E o \in IF config.max_file_count.some
                 THEN PruneOutcomes(dir, provider, config.max_file_count.val)
                 ELSE {[err |-> "none", dir |-> dir, doomed |-> <<>>, removed |-> 0]} :
         LET done == [ran |-> config.max_file_count.some, before |-> dir,
                      doomed |-> o.doomed, removed |-> o.removed]
         IN  /\ dir' = o.dir
             /\ IF o.err = "none"
                THEN /\ pc' = IF call.op = "write" THEN "should_roll" ELSE "idle"
                     /\ call' = [call EXCEPT
                                   !.result = IF call.op = "write" THEN @ ELSE "ok",
                                   !.log = Append(@, "something"),
                                   !.prune = done]
                     /\ UNCHANGED hist
                ELSE Failed(o.err, [call EXCEPT !.prune = done])
    /\ UNCHANGED <<file, handles, provider, config, now>>

\* ------------------------------------------------------- Write::write
\* self.writer()?.write(buf): the active file's write.
WriteStep ==
    /\ pc = "write"
    /\ file.some
    /\ \E o \in WriteOutcomes(file.val.buffered, call.buf) :
         /\ file' = Some(IF o.ok THEN Written(file.val, o.n, o.buffered)
                         ELSE [file.val EXCEPT !.buffered = o.buffered])
         /\ dir' = OsWrite(dir, file.val.name, o.disk)
         /\ pc' = "idle"
         /\ call' = [call EXCEPT !.result = IF o.ok THEN "ok" ELSE "err",
                                 !.ret = o.n,
                                 !.err_at = IF o.ok THEN "none" ELSE "write"]
         /\ hist' = [hist EXCEPT !.accepted = @ + o.n, !.failed = @ \/ ~o.ok]
    /\ UNCHANGED <<handles, provider, config, now>>

Next ==
    \/ Tick
    \/ \E n \in {1, MaxBuf} : CallWrite(n)
    \/ CallRoll
    \/ CallFlush
    \/ ShouldRollStep
    \/ RollFlush
    \/ RollDrop
    \/ RollName
    \/ RollOpen
    \/ Something
    \/ WriteStep

Spec == Init /\ [][Next]_vars

\* ------------------------------------------- the naming policy on its own
\* A DefaultRollingFileNameProvider, prefix and suffix each set or unset,
\* called again and again while the clock moves (now_utc is the wall clock:
\* it can be set back).  hist is the sequence of the calls made: the formatted
\* timestamp each saw and the name it returned.
InitNaming ==
    /\ provider \in {NewProvider(prefix, suffix, TRUE) :
                        prefix \in {None, Some(<<"a">>)},
                        suffix \in {None, Some(<<"l">>)}}
    /\ now = 1
    /\ hist = <<>>
    /\ file = NoFile
    /\ handles = 0
    /\ dir = <<>>
    /\ config = [truncate |-> FALSE, max_file_count |-> None, rolling_conditions |-> <<>>]
    /\ pc = "idle"
    /\ call = NoCall

ClockSet ==
    /\ \E t \in 1..MaxTime : t # now /\ now' = t
    /\ UNCHANGED <<file, handles, dir, provider, config, pc, call, hist>>

NamingCall ==
    /\ Len(hist) < MaxNames
    /\ LET r == NextFileName(provider, now)
       IN  /\ r.ok
           /\ provider' = r.provider
           /\ hist' = Append(hist, [datetime |-> FormatDatetime(now), name |-> r.name])
    /\ UNCHANGED <<file, handles, dir, config, now, pc, call>>

NextNaming == ClockSet \/ NamingCall

SpecNaming == InitNaming /\ [][NextNaming]_vars

\* ----------------------------------------------- should_roll on its own
\* The orders a list of conditions can be attached in.
Orders(conds) ==
    {[i \in 1..Len(conds) |-> conds[p[i]]] : p \in Permutations(1..Len(conds))}

\* The lists RollingFileBuilder::rolling_condition can build from a size
\* condition, a duration condition and a failing one, each attached or not.
AttachedLists ==
    UNION {Orders(l) : l \in {<<>>, <<BySize(DesiredSize)>>, <<ByDuration(Duration)>>,
                              <<Failing>>,
                              <<BySize(DesiredSize), ByDuration(Duration)>>,
                              <<BySize(DesiredSize), Failing>>,
                              <<ByDuration(Duration), Failing>>,
                              <<BySize(DesiredSize), ByDuration(Duration), Failing>>}}

\* An engine with some list of conditions attached and either no active file
\* or one of some age and length, at some time.  hist is the set of the
\* should_roll calls made: the order the conditions were attached in and the
\* result.
InitConditions ==
    /\ config \in [truncate : {FALSE}, max_file_count : {None},
                    rolling_conditions : AttachedLists]
    /\ file \in {NoFile} \cup
                {Some(OpenedFile(<<"a">>, RegularFile(created, len), 1, None)) :
                    created \in 0..1, len \in 0..DesiredSize}
    /\ now \in 1..MaxTime
    /\ hist = {}
    /\ provider = NewProvider(None, None, TRUE)
    /\ handles = IF file.some THEN 1 ELSE 0
    /\ dir = <<>>
    /\ pc = "idle"
    /\ call = NoCall

\* RollingFile::should_roll called by the owner.
CallShouldRoll ==
    /\ hist' = hist \cup {[order |-> config.rolling_conditions,
                            result |-> ShouldRoll(file, config.rolling_conditions, now)]}
    /\ UNCHANGED <<file, handles, dir, provider, config, now, pc, call>>

\* The same conditions attached in another order.
Reattach ==
    /\ \E o \in Orders(config.rolling_conditions) \ {config.rolling_conditions} :
         config' = [config EXCEPT !.rolling_conditions = o]
    /\ UNCHANGED <<file, handles, dir, provider, now, pc, call, hist>>

NextConditions == CallShouldRoll \/ Reattach

SpecConditions == InitConditions /\ [][NextConditions]_vars

\* ---------------------------------------------------------- construction
\* RollingBySize::new and RollingByDuration::new: a zero threshold panics,
\* and no condition is returned.
Panic == [ok |-> FALSE, panic |-> TRUE]
RollingBySizeNew(desired_size) ==
    IF desired_size = 0 THEN Panic ELSE Ok(BySize(desired_size))
RollingByDurationNew(duration) ==
    IF duration = 0 THEN Panic ELSE Ok(ByDuration(duration))

\* RollingFileBuilder::new
RollingFileBuilderNew ==
    [directory |-> None, file_name_provider |-> None, file_open_options |-> None,
     max_file_count |-> None, rolling_conditions |-> <<>>]

\* FileOpenOptions::default
DefaultFileOpenOptions == [truncate |-> FALSE]

UnwrapOr(o, default) == IF o.some THEN o.val ELSE default

\* A finish that falls back on a provider of its own.
FinishDefaulting(b) ==
    Ok([file |-> None,
        directory |-> UnwrapOr(b.directory, <<".">>),
        file_name_provider |-> UnwrapOr(b.file_name_provider, NewProvider(None, None, TRUE)),
        file_open_options |-> UnwrapOr(b.file_open_options, DefaultFileOpenOptions),
        max_file_count |-> b.max_file_count,
        rolling_conditions |-> b.rolling_conditions])

\* RollingFileBuilder::finish
Finish(b) ==
    IF ~b.file_name_provider.some THEN Err
    ELSE Ok([file |-> None,
             directory |-> UnwrapOr(b.directory, <<".">>),
             file_name_provider |-> b.file_name_provider.val,
             file_open_options |-> UnwrapOr(b.file_open_options, DefaultFileOpenOptions),
             max_file_count |-> b.max_file_count,
             rolling_conditions |-> b.rolling_conditions])

\* The most conditions a builder is given.
MaxConditions == 2

\* The owner's program: a builder, setters called on it in any order, any
\* number of times, then finish.  hist is the builder, call the last call made
\* and what it returned, config the engine once built.
InitBuild ==
    /\ hist = RollingFileBuilderNew
    /\ call = [op |-> "new", arg |-> 0, builder |-> RollingFileBuilderNew,
               result |-> Ok(RollingFileBuilderNew)]
    /\ pc = "builder"
    /\ config = None
    /\ file = NoFile
    /\ handles = 0
    /\ provider = NewProvider(None, None, TRUE)
    /\ dir = <<>>
    /\ now = 1

\* A setter of the builder: it returns the builder with one field set.
Set(op, field, v) ==
    /\ pc = "builder"
    /\ hist' = [hist EXCEPT ![field] = Some(v)]
    /\ call' = [op |-> op, arg |-> v, builder |-> hist, result |-> Ok(hist')]
    /\ UNCHANGED <<file, handles, dir, provider, config, now, pc>>

SetDirectory == Set("directory", "directory", <<"d">>)
SetFileNameProvider == \E p \in Providers : Set("file_name_provider", "file_name_provider", p)
SetFileOpenOptions ==
    \E t \in BOOLEAN : Set("file_open_options", "file_open_options", [truncate |-> t])
SetMaxFileCount == \E k \in 0..MaxKeep : Set("max_file_count", "max_file_count", k)

\* builder.rolling_condition(RollingBySize::new(n)) and the same with
\* RollingByDuration::new(n): the constructor runs first, and its panic ends
\* the program.
AttachCondition ==
    /\ pc = "builder"
    /\ Len(hist.rolling_conditions) < MaxConditions
    /\ \E made \in {[op |-> "RollingBySize::new", arg |-> n,
                       result |-> RollingBySizeNew(n)] : n \in 0..DesiredSize}
                 \cup {[op |-> "RollingByDuration::new", arg |-> n,
                         result |-> RollingByDurationNew(n)] : n \in 0..Duration} :
         /\ call' = [op |-> made.op, arg |-> made.arg, builder |-> hist,
                     result |-> made.result]
         /\ IF made.result.ok
            THEN /\ hist' = [hist EXCEPT !.rolling_conditions = Append(@, made.result.val)]
                 /\ pc' = "builder"
            ELSE /\ pc' = "panicked"
                 /\ UNCHANGED hist
    /\ UNCHANGED <<file, handles, dir, provider, config, now>>

\* builder.finish(): the engine, or the error and no engine.
CallFinish ==
    /\ pc = "builder"
    /\ call' = [op |-> "finish", arg |-> 0, builder |-> hist, result |-> Finish(hist)]
    /\ pc' = IF Finish(hist).ok THEN "built" ELSE "failed"
    /\ config' = IF Finish(hist).ok THEN Some(Finish(hist).val) ELSE None
    /\ UNCHANGED <<file, handles, dir, provider, now, hist>>

NextBuild ==
    \/ SetDirectory
    \/ SetFileNameProvider
    \/ SetFileOpenOptions
    \/ SetMaxFileCount
    \/ AttachCondition
    \/ CallFinish

SpecBuild == InitBuild /\ [][NextBuild]_vars

\* ================================================================ claims
\* The length File::open seeds the stat of f with: the size of the file it
\* opened, which is 0 unless append mode opened a file that existed.
Seed(f) == IF f.pre.some /\ ~config.truncate THEN f.pre.val ELSE 0

\* The append in progress (or just ended) found, when it was called, an
\* active file that an attached size condition fires on.
SizeReachedAtCall ==
    /\ call.op = "write"
    /\ call.start.some
    /\ \E i \in DOMAIN config.rolling_conditions :
         /\ config.rolling_conditions[i].kind = "size"
         /\ config.rolling_conditions[i].desired_size <= call.start.val.len

\* The append in progress (or just ended) found, when it was called, an
\* active file that an attached duration condition fires on.
DurationReachedAtCall ==
    /\ call.op = "write"
    /\ call.start.some
    /\ \E i \in DOMAIN config.rolling_conditions :
         /\ config.rolling_conditions[i].kind = "duration"
         /\ call.start.val.created + config.rolling_conditions[i].duration <= call.t0

\* C1: at most one file handle is open in every state, whatever calls were
\* made and however they ended, and when a roll is about to open the next
\* file the old handle has been released: no handle is open.
C1_AtMostOneHandle ==
    /\ handles <= 1
    /\ handles = (IF file.some THEN 1 ELSE 0)
    /\ pc = "open" => handles = 0

\* A roll that had an old file to release has opened its new file.
C1_Witness ==
    /\ pc = "something"
    /\ call.start.some
    /\ hist.opens >= 2
    /\ handles = 1

\* C2 as stated: after successful writes only, with no condition ever firing,
\* every byte went through the handle the first write opened and that file's
\* length is the sum of the bytes written.
C2_LengthIsSumOfWrites ==
    (pc = "idle" /\ call.op = "write" /\ ~hist.failed /\ ~hist.fired /\ ~hist.rolled)
    => /\ file.some
       /\ file.val.id = 1
       /\ file.val.accepted = hist.accepted
       /\ file.val.len = hist.accepted

\* C2 amended: after successful writes only, with no condition ever firing,
\* every byte went through the one handle the first write opened, that file's
\* length is the size it was opened with (0 unless append mode opened a file
\* that existed) plus the sum of the bytes written, and while the file is in
\* the directory its size on disk and the buffered bytes add up to the length.
C2_LengthIsSeedPlusWrites ==
    (pc = "idle" /\ call.op = "write" /\ ~hist.failed /\ ~hist.fired /\ ~hist.rolled)
    => /\ file.some
       /\ file.val.id = 1
       /\ hist.opens = 1
       /\ file.val.accepted = hist.accepted
       /\ file.val.len = Seed(file.val) + hist.accepted
       /\ file.val.name \in DOMAIN dir
            => dir[file.val.name].size + file.val.buffered = file.val.len

\* Two successful writes, no roll but the first, onto a file that existed.
C2_Witness ==
    /\ pc = "idle" /\ call.op = "write" /\ ~hist.failed /\ ~hist.fired /\ ~hist.rolled
    /\ hist.calls >= 2
    /\ call.accepted0 > 0
    /\ call.ret > 0
    /\ file.some /\ file.val.pre.some /\ ~config.truncate

\* C3: an append called while the active file's length is at or past the
\* threshold of an attached size condition writes, if it gets to write, to
\* another file than the one it found: it rolled first, and the file it
\* writes to has, before the write, length 0, or in append mode the size of
\* the file that already existed under the new name.
C3_SizeRollsBeforeWrite ==
    (pc = "write" /\ SizeReachedAtCall)
    => /\ call.rolls >= 1
       /\ file.some
       /\ file.val.id # call.start.val.id
       /\ file.val.name # call.start.val.name
       /\ file.val.accepted = 0
       /\ file.val.len = Seed(file.val)

\* The example of the spec, scaled: appends fill the first file to exactly the
\* threshold, the next append rolls and leaves its bytes in the second file.
C3_Witness ==
    /\ pc = "idle" /\ call.result = "ok" /\ SizeReachedAtCall
    /\ call.start.val.len = DesiredSize
    /\ call.start.val.pre = None
    /\ call.start.val.name \in DOMAIN dir
    /\ dir[call.start.val.name].size = DesiredSize
    /\ file.val.id = 2
    /\ file.val.len = call.ret
    /\ call.ret > 0

\* C4: an append called when the active file's creation time plus the
\* duration of an attached duration condition is at or before the clock
\* writes, if it gets to write, to another file than the one it found,
\* whatever the length of the file it found.
C4_DurationRollsBeforeWrite ==
    (pc = "write" /\ DurationReachedAtCall)
    => /\ call.rolls >= 1
       /\ file.some
       /\ file.val.id # call.start.val.id
       /\ file.val.name # call.start.val.name
       /\ file.val.accepted = 0

\* An append found an empty file old enough and is about to write elsewhere.
C4_Witness ==
    /\ pc = "write" /\ DurationReachedAtCall
    /\ call.start.val.len = 0
    /\ call.start.val.created + Duration = call.t0

\* How many calls immediately before call i of h saw the timestamp call i saw.
RECURSIVE Repeats(_, _)
Repeats(h, i) ==
    IF i = 1 \/ h[i - 1].datetime # h[i].datetime THEN 0 ELSE 1 + Repeats(h, i - 1)

\* C7: of consecutive next_file_name calls that see the same formatted
\* timestamp, the first returns prefix, timestamp, suffix and the n-th repeat
\* returns prefix, timestamp, "-n", suffix; the first call after the
\* timestamp changed returns the bare form again, and the counter is the
\* number of repeats of the last call (0 after a change).
C7_NamesCountRepeats ==
    /\ \A i \in 1..Len(hist) :
         LET n == Repeats(hist, i)
         IN  hist[i].name = UnwrapOrEmpty(provider.file_name_prefix)
                            \o hist[i].datetime
                            \o (IF n = 0 THEN <<>> ELSE <<"-">> \o Dec(n))
                            \o UnwrapOrEmpty(provider.file_name_suffix)
    /\ hist # <<>>
         => /\ provider.prev_file_name_datetime = Some(hist[Len(hist)].datetime)
            /\ provider.prev_file_name_datetime_hits = Repeats(hist, Len(hist))

\* Three calls in one timestamp, the third named "-2", then a call in another
\* timestamp named without a number.
C7_Witness ==
    \E i \in 3..(Len(hist) - 1) :
        /\ Repeats(hist, i) = 2
        /\ hist[i].name = UnwrapOrEmpty(provider.file_name_prefix) \o hist[i].datetime
                           \o <<"-", "2">> \o UnwrapOrEmpty(provider.file_name_suffix)
        /\ Repeats(hist, i + 1) = 0
        /\ hist[i + 1].name = UnwrapOrEmpty(provider.file_name_prefix)
                               \o hist[i + 1].datetime
                               \o UnwrapOrEmpty(provider.file_name_suffix)
        /\ provider.prev_file_name_datetime_hits = Repeats(hist, Len(hist))

Min(a, b) == IF a <= b THEN a ELSE b

\* Condition i of the list `conds` fires on the active file.
Fires(conds, i) ==
    \/ conds[i].kind = "size" /\ conds[i].desired_size <= file.val.len
    \/ conds[i].kind = "duration" /\ file.val.created + conds[i].duration <= now

\* C11 as stated: whatever order the conditions are attached in, should_roll
\* gives the same result on the same file at the same time.
C11_OrderIndependent == \A a \in hist : \A b \in hist : a.result = b.result

\* C11 amended: with no active file should_roll says roll; with one, and no
\* condition that returns an error, it is the OR of the conditions whatever
\* their order; when a condition returns an error, should_roll says roll if
\* a condition attached before every failing one fires, and returns the
\* error otherwise.
C11_OrUpToFirstError ==
    \A a \in hist :
        LET conds == a.order
            failing == {i \in DOMAIN conds : conds[i].kind = "failing"}
            firing == {i \in DOMAIN conds \ failing : Fires(conds, i)}
        IN  /\ ~file.some => a.result = Ok(TRUE)
            /\ (file.some /\ failing = {}) => a.result = Ok(firing # {})
            /\ (file.some /\ failing # {})
                 => a.result = IF \E i \in firing : \A j \in failing : i < j
                                THEN Ok(TRUE) ELSE Err

\* Two conditions that do not fail were tried in both orders on an active
\* file that only the second of them fires on, and both orders said roll.
C11_Witness ==
    /\ file.some
    /\ Cardinality(hist) >= 2
    /\ \E a \in hist : \E b \in hist :
         /\ a.order # b.order
         /\ Len(a.order) = 2
         /\ \A i \in 1..2 : a.order[i].kind # "failing"
         /\ ~Fires(a.order, 1) /\ Fires(a.order, 2)
         /\ a.result = Ok(TRUE) /\ b.result = Ok(TRUE)

\* The last roll ran to its end, pruning included.
RollCompleted == call.log # <<>> /\ call.log[Len(call.log)] = "something"

\* C5: after a successful roll with max_file_count = K, of the N regular
\* files with acceptable names that the directory held when the prune
\* listed it, min(K, N) remain, and none that was removed is newer than one
\* that remains: the K newest are kept and every other one is deleted.
C5_KeepsNewest ==
    (RollCompleted /\ config.max_file_count.some)
    => LET before == call.prune.before
           listed == LogFiles(before, provider)
           kept == LogFiles(dir, provider)
       IN  /\ call.prune.ran
           /\ kept \subseteq listed
           /\ Cardinality(kept) = Min(config.max_file_count.val, Cardinality(listed))
           /\ \A a \in kept : \A b \in listed \ kept :
                   before[b].created <= before[a].created

\* A roll found more acceptable files than it may keep, and keeps some.
C5_Witness ==
    /\ RollCompleted /\ config.max_file_count.some
    /\ config.max_file_count.val >= 1
    /\ Cardinality(LogFiles(call.prune.before, provider)) > config.max_file_count.val
    /\ \E a \in LogFiles(dir, provider) :
         \E b \in LogFiles(call.prune.before, provider) \ DOMAIN dir :
             call.prune.before[b].created < call.prune.before[a].created

\* The entries of d that pruning must leave alone: those that are no regular
\* file and those whose name the provider does not accept.
Others(d) ==
    [n \in {m \in DOMAIN d : d[m].kind # "file" \/ ~Acceptable(provider, m)} |-> d[n]]

\* C6: the entries of the directory that are no regular file, or whose name
\* the naming policy rejects, are in every state the ones the directory
\* held before the engine's first call, unchanged.
C6_OthersUntouched == Others(dir) = Others(hist.dir0)

\* A prune removed every file of the rotation set and the others are there.
C6_Witness ==
    /\ call.prune.removed >= 2
    /\ LogFiles(dir, provider) = {}
    /\ Cardinality(DOMAIN Others(dir)) = 2

RollOrder == <<"flush", "drop", "next_file_name", "open", "something">>

\* The steps of the current roll that succeeded, in the order they ran.
Completed ==
    IF call.log # <<>> /\ call.log[Len(call.log)] = "failed"
    THEN SubSeq(call.log, 1, Len(call.log) - 1) ELSE call.log

\* C8: the steps of every roll run in the order flush, release, next name,
\* open, prune.  The old file is flushed when it is released; no file is
\* active and no handle open when the name is asked for and when the file is
\* opened; the file opened under that name, in the configured mode, is the
\* active file when pruning runs.
C8_RollOrder ==
    /\ Len(Completed) <= Len(RollOrder)
    /\ Completed = SubSeq(RollOrder, 1, Len(Completed))
    /\ pc \in {"flush", "drop", "next_file_name", "open", "something"}
         => pc = RollOrder[Len(call.log) + 1]
    /\ pc = "drop" /\ file.some => file.val.buffered = 0
    /\ pc \in {"next_file_name", "open"} => ~file.some /\ handles = 0
    /\ pc = "something"
         => /\ file.some
            /\ file.val.name = call.name
            /\ file.val.name \in DOMAIN dir
            /\ config.truncate => file.val.len = 0

\* A roll with an old file to flush and release ran all five steps.
C8_Witness ==
    /\ call.log = RollOrder
    /\ call.start.some
    /\ call.start.val.len > 0
    /\ call.prune.ran

\* C9: an append that returned an error has ended (the failed step is the
\* last one of the call, nothing is tried again), returned no byte count,
\* and accepted none of the caller's bytes: the bytes accepted so far are
\* those accepted before the call, the active file's length is the length
\* it was opened with plus the bytes it accepted, and a file that was active
\* before the call and still is has the length it had.
C9_FailedAppendWritesNothing ==
    (call.op = "write" /\ call.result = "err")
    => /\ pc = "idle"
       /\ call.ret = 0
       /\ hist.accepted = call.accepted0
       /\ file.some => file.val.len = Seed(file.val) + file.val.accepted
       /\ (file.some /\ call.start.some /\ file.val.id = call.start.val.id)
            => file.val.len = call.start.val.len

\* An append failed in the prune of its roll, with the new file open.
C9_Witness ==
    /\ call.op = "write" /\ call.result = "err"
    /\ call.err_at = "remove_file"
    /\ call.start.some
    /\ file.some
    /\ call.buf > 0

\* C10: a prune that failed before its removals (listing, metadata,
\* acceptability, creation time) left the directory as it found it; a prune
\* whose remove_file failed removed exactly the entries before the failing
\* one, so the failing one and all after it are still there.
C10_PruneFailClosed ==
    LET p == call.prune
    IN  /\ call.err_at = "scan" => dir = p.before
        /\ call.err_at = "remove_file"
             => /\ p.removed < Len(p.doomed)
                /\ DOMAIN p.before \ DOMAIN dir = {p.doomed[i] : i \in 1..p.removed}
                /\ \A i \in (p.removed + 1)..Len(p.doomed) : p.doomed[i] \in DOMAIN dir
                /\ \A n \in DOMAIN dir : dir[n] = p.before[n]

\* A remove_file failed after one removal, with more entries still to go.
C10_Witness ==
    /\ call.err_at = "remove_file"
    /\ call.prune.removed >= 1
    /\ Len(call.prune.doomed) >= call.prune.removed + 2

\* C12: with no roll condition attached, over appends (and flushes) of which
\* no step fails, the one roll is that of the first append: an append that
\* starts with no file rolls once and opens the first file, an append that
\* starts with a file does not roll and writes to that same first file.
C12_ZeroConditionsRollOnce ==
    (config.rolling_conditions = <<>> /\ ~hist.failed /\ ~hist.rolled) =>
        /\ hist.opens <= 1
        /\ call.op = "write" =>
             /\ call.rolls <= 1
             /\ call.start.some =>
                  /\ call.rolls = 0
                  /\ file.some /\ file.val.id = 1 /\ call.start.val.id = 1
             /\ (call.result = "ok" \/ pc = "write") =>
                  /\ hist.opens = 1
                  /\ file.some /\ file.val.id = 1
                  /\ call.rolls = IF call.start.some THEN 0 ELSE 1

\* A second append went to the file the first one opened.
C12_Witness ==
    /\ config.rolling_conditions = <<>> /\ ~hist.failed /\ ~hist.rolled
    /\ pc = "idle" /\ call.op = "write" /\ call.result = "ok"
    /\ call.start.some /\ call.ret > 0
    /\ hist.calls = MaxCalls /\ hist.opens = 1
    /\ hist.accepted > call.ret

\* C13: finish on a builder with no naming policy returns the error and
\* leaves no engine; a size or duration condition constructed with a zero
\* threshold fails, and no condition is attached; every other finish returns
\* an engine with no file open, the builder's settings, and for those not set
\* directory ".", append mode and no maximum file count.
C13_ConfigErrorsAtConstruction ==
    /\ (pc = "built") = config.some
    /\ call.op = "finish" =>
         LET b == call.builder
         IN  IF ~b.file_name_provider.some
             THEN ~call.result.ok /\ pc = "failed" /\ ~config.some
             ELSE /\ call.result.ok /\ pc = "built" /\ config = Some(call.result.val)
                  /\ config.val.file = None
                  /\ config.val.file_name_provider = b.file_name_provider.val
                  /\ config.val.rolling_conditions = b.rolling_conditions
                  /\ config.val.directory =
                        IF b.directory.some THEN b.directory.val ELSE <<".">>
                  /\ config.val.file_open_options.truncate =
                        (b.file_open_options.some /\ b.file_open_options.val.truncate)
                  /\ config.val.max_file_count = b.max_file_count
    /\ call.op \in {"RollingBySize::new", "RollingByDuration::new"} =>
         IF call.arg = 0
         THEN ~call.result.ok /\ pc = "panicked" /\ hist = call.builder
         ELSE /\ call.result.ok /\ pc = "builder"
              /\ call.result.val =
                    IF call.op = "RollingBySize::new"
                    THEN [kind |-> "size", desired_size |-> call.arg]
                    ELSE [kind |-> "duration", duration |-> call.arg]
              /\ hist.rolling_conditions =
                    Append(call.builder.rolling_conditions, call.result.val)
    /\ \A i \in DOMAIN hist.rolling_conditions :
         LET c == hist.rolling_conditions[i]
         IN  IF c.kind = "size" THEN c.desired_size > 0 ELSE c.duration > 0

\* finish failed for want of a naming policy on a builder that had
\* everything else set.
C13_Witness ==
    /\ pc = "failed" /\ call.op = "finish" /\ ~config.some
    /\ ~hist.file_name_provider.some
    /\ hist.directory.some /\ hist.file_open_options.some /\ hist.max_file_count.some
    /\ Len(hist.rolling_conditions) = MaxConditions

\* C14: while a file is active its stat length is the size seeded at open (0
\* for a new or truncated file, the size of the file found in append mode)
\* plus the bytes the writes since the open returned; a step that does not
\* return bytes, a failed write among them, leaves the length as it was; and
\* created does not change while the file is active.
C14_LengthAndCreated ==
    /\ [](file.some => file.val.len = Seed(file.val) + (hist.accepted - hist.base))
    /\ [][(file.some /\ file'.some /\ file'.val.id = file.val.id)
            => /\ file'.val.created = file.val.created
               /\ file'.val.len = file.val.len + (hist'.accepted - hist.accepted)
               /\ call'.err_at = "write" => file'.val.len = file.val.len]_vars

\* A write failed on a file that was found with bytes in it, opened in append
\* mode and written to before.
C14_Witness ==
    /\ pc = "idle" /\ call.op = "write" /\ call.err_at = "write"
    /\ file.some /\ Seed(file.val) > 0
    /\ hist.accepted - hist.base > 0
    /\ file.val.len = Seed(file.val) + (hist.accepted - hist.base)

\* C15: when an append comes to its write a file is open, and the check just
\* made found no attached condition firing on it (nor failing); bytes are
\* accepted only by that write, into the file that was checked.
C15_WriteAfterFalseCheck ==
    /\ [](pc = "write" =>
            /\ call.op = "write"
            /\ file.some
            /\ \A i \in DOMAIN config.rolling_conditions :
                 /\ config.rolling_conditions[i].kind # "failing"
                 /\ ~Fires(config.rolling_conditions, i))
    /\ [][hist'.accepted # hist.accepted
            => /\ pc = "write" /\ file.some
               /\ file'.some /\ file'.val.id = file.val.id
               /\ file'.val.len > file.val.len]_vars

\* An append wrote to a file it opened itself, after the roll of a file that
\* a condition fired on and the check of the new one.
C15_Witness ==
    /\ pc = "idle" /\ call.op = "write" /\ call.result = "ok" /\ call.ret > 0
    /\ call.start.some /\ call.rolls = 1
    /\ file.some /\ file.val.id # call.start.val.id
    /\ config.rolling_conditions # <<>>

\* Only the two built-in conditions are attached.
BuiltInOnly ==
    \A i \in DOMAIN config.rolling_conditions :
        config.rolling_conditions[i].kind \in {"size", "duration"}

\* The append in progress has rolled and is to check the file its roll
\* created, a file that was not in the directory before.
ChecksBrandNew ==
    /\ call.op = "write" /\ pc = "should_roll" /\ call.rolls >= 1
    /\ BuiltInOnly
    /\ file.some /\ ~file.val.pre.some

\* An attached duration has passed since the active file was created.
Elapsed ==
    \E i \in DOMAIN config.rolling_conditions :
        /\ config.rolling_conditions[i].kind = "duration"
        /\ file.val.created + config.rolling_conditions[i].duration <= now

\* C16 as stated: with built-in conditions only, an append that has rolled
\* once into a brand-new file, the only file in the directory, does not
\* roll again.
C16_AtMostOneRoll ==
    [][(ChecksBrandNew /\ call.rolls = 1 /\ DOMAIN dir = {file.val.name})
         => pc' # "flush"]_vars

\* C16 amended: a brand-new file has length 0 and a creation time not after
\* the clock, so no size condition fires on it; the append that opened it
\* rolls again exactly when the check finds that an attached duration has
\* passed since the file was created, and goes to its write otherwise.
C16_RollsAgainOnlyWhenElapsed ==
    /\ [](ChecksBrandNew => file.val.len = 0 /\ file.val.created <= now)
    /\ [][ChecksBrandNew =>
            /\ pc' = "flush" => (Elapsed /\ file.val.created < now)
            /\ pc' = "write" => ~Elapsed
            /\ pc' \in {"flush", "write", "should_roll"}]_vars

\* An append rolled a file that a condition fired on, checked the brand-new
\* file at once, and wrote to it: one roll.
C16_Witness ==
    /\ pc = "idle" /\ call.op = "write" /\ call.result = "ok" /\ call.ret > 0
    /\ call.start.some /\ call.rolls = 1
    /\ Len(config.rolling_conditions) = 2 /\ BuiltInOnly
    /\ file.some /\ ~file.val.pre.some /\ file.val.created = now

\* C17: after a roll that succeeded with max_file_count set, the file the
\* roll opened, the active file, is still in the directory.
C17_ActiveFileSurvivesPrune ==
    (RollCompleted /\ call.prune.ran) =>
        /\ file.some
        /\ file.val.name \in DOMAIN dir

\* C18: when the flush that starts a roll fails, the call returns the error
\* with the same file active and its handle open, its stat (length, created)
\* as it was, the provider as it was, and the directory holding the same
\* entries; the bytes that were buffered are on the disk or still buffered.
C18_FailedFlushKeepsFile ==
    [][(pc = "flush" /\ call'.err_at = "flush") =>
         /\ pc' = "idle" /\ call'.result = "err"
         /\ file.some /\ file'.some /\ handles' = handles /\ handles = 1
         /\ file'.val.id = file.val.id /\ file'.val.name = file.val.name
         /\ file'.val.len = file.val.len /\ file'.val.created = file.val.created
         /\ file'.val.buffered > 0
         /\ provider' = provider
         /\ DOMAIN dir' = DOMAIN dir
         /\ \A n \in DOMAIN dir :
              IF n = file.val.name
              THEN /\ dir'[n].created = dir[n].created
                   /\ dir'[n].size + file'.val.buffered = dir[n].size + file.val.buffered
              ELSE dir'[n] = dir[n]]_vars

\* An append found a size condition firing on a file with bytes buffered,
\* and the flush of its roll failed: the file is still the active one.
C18_Witness ==
    /\ pc = "idle" /\ call.op = "write" /\ call.err_at = "flush"
    /\ call.start.some /\ file.some /\ file.val.id = call.start.val.id
    /\ file.val.len = call.start.val.len /\ file.val.buffered > 0
    /\ handles = 1

\* The formatted timestamp of the calls never came back to a value it had
\* left.
NeverReturns(h) ==
    \A i \in 1..Len(h) : \A k \in i..Len(h) :
        h[i].datetime = h[k].datetime
            => \A j \in i..k : h[j].datetime = h[i].datetime

\* C19: the names one provider returned are pairwise distinct as long as the
\* formatted timestamp never came back to a value it had left.
C19_NamesDistinct ==
    NeverReturns(hist) =>
        \A i \in 1..Len(hist) : \A j \in 1..Len(hist) :
            i # j => hist[i].name # hist[j].name

\* As many calls as the bound allows, in two values of the timestamp, three
\* of them or more in one.
C19_Witness ==
    /\ Len(hist) = MaxNames
    /\ NeverReturns(hist)
    /\ hist[1].datetime # hist[Len(hist)].datetime
    /\ \E i \in 1..Len(hist) : Repeats(hist, i) >= 2
    /\ \A i \in 1..Len(hist) : \A j \in 1..Len(hist) :
         i # j => hist[i].name # hist[j].name

\* C20: every name next_file_name returned is acceptable to the provider that
\* returned it, whichever of prefix and suffix is set and whatever the number
\* of the repeat.
C20_OwnNamesAcceptable ==
    \A i \in 1..Len(hist) : Acceptable(provider, hist[i].name)

\* A provider with a suffix and no prefix returned a name with a number and,
\* after the timestamp changed, one without; both are acceptable.
C20_Witness ==
    /\ ~provider.file_name_prefix.some /\ provider.file_name_suffix.some
    /\ \E i \in 2..Len(hist) :
         /\ Repeats(hist, i - 1) >= 1 /\ Repeats(hist, i) = 0
         /\ Acceptable(provider, hist[i - 1].name)
         /\ Acceptable(provider, hist[i].name)
====
